---- MODULE Spec2Model ----
(***************************************************************************)
(* Model of astrbot_plugin_help (src/main.py): MyPlugin.get_help and the   *)
(* command catalog builder MyPlugin.get_all_commands with its helpers.     *)
(*                                                                         *)
(* Python strings are sequences of one-character strings, so that strip()  *)
(* and split(":", 1) are computed and not assumed.  The three values that  *)
(* are not strings are one-element sequences whose element is no           *)
(* character: None, a missing attribute, and a truthy object that is not a *)
(* string.  A dict is a function on its keys; the insertion order of the   *)
(* keys, which no operation of the plugin reads, is not kept.              *)
(***************************************************************************)
EXTENDS Integers, Sequences, FiniteSets, TLC

VARIABLES
    config,                 \* self.config: the three recognised options
    fetch_raises,           \* host: self.context.get_all_stars() raises
    stars,                  \* host: the StarMetadata list get_all_stars() returns
    star_handlers_registry, \* host: the global handler registry
    render_raises,          \* collaborator: drawer.draw_help_image raises
    pc,                     \* position of get_help / get_all_commands
    all_stars_metadata,     \* local: the activated stars (line 87)
    display_name_map,       \* local: parsed overrides (line 99)
    si,                     \* index of the star the outer loop is at (line 102)
    hi,                     \* index of the handler the inner loop is at (line 142)
    plugin_commands,        \* local defaultdict(list) (line 82)
    plugin_command_keys,    \* local defaultdict(set) (line 83)
    origin,                 \* history: for each entry, the <<star, handler>> that appended it
    help_msg,               \* get_help: the value get_all_commands returned (line 31)
    replies,                \* the results get_help has yielded, oldest first
    drawn                   \* number of calls of drawer.draw_help_image

vars == <<config, fetch_raises, stars, star_handlers_registry, render_raises, pc,
          all_stars_metadata, display_name_map, si, hi, plugin_commands,
          plugin_command_keys, origin, help_msg, replies, drawn>>

host == <<config, fetch_raises, stars, star_handlers_registry, render_raises>>

-----------------------------------------------------------------------------
(* Values *)

None == <<"<None>">>
Missing == <<"<missing>">>
NonStr == <<"<object>">>

\* bool(v) of None, of a string and of any other object
Truthy(v) == v # None /\ v # <<>>

\* getattr(self.config, option, default): an option is "True", "False" or "Unset"
ConfigGet(v, default) == IF v = "Unset" THEN default ELSE v

\* getattr(obj, name, default)
GetAttr(v, default) == IF v = Missing THEN default ELSE v

\* a or b
Or(a, b) == IF a # None /\ a # <<>> THEN a ELSE b

astrbot == <<"a","s","t","r","b","o","t">>
astrbot_plugin_help == astrbot \o <<"_","p","l","u","g","i","n","_","h","e","l","p">>
astrbot_reminder == astrbot \o <<"-","r","e","m","i","n","d","e","r">>
builtin_commands == <<"b","u","i","l","t","i","n","_","c","o","m","m","a","n","d","s">>
\* the default of getattr(star, "name", ...), four CJK characters
UnknownPlugin == <<"wei","zhi","cha","jian">>

-----------------------------------------------------------------------------
(* str.strip and str.split *)

RECURSIVE LStrip(_)
LStrip(s) == IF s # <<>> /\ Head(s) = " " THEN LStrip(Tail(s)) ELSE s

RECURSIVE RStrip(_)
RStrip(s) ==
    IF s # <<>> /\ s[Len(s)] = " " THEN RStrip(SubSeq(s, 1, Len(s) - 1)) ELSE s

Strip(s) == RStrip(LStrip(s))

\* ":" in raw
HasColon(s) == \E k \in 1..Len(s) : s[k] = ":"

FirstColon(s) == CHOOSE k \in 1..Len(s) : s[k] = ":" /\ \A m \in 1..(k - 1) : s[m] # ":"

\* raw.split(":", 1), for a raw that has a colon
SplitColon(s) ==
    <<SubSeq(s, 1, FirstColon(s) - 1), SubSeq(s, FirstColon(s) + 1, Len(s))>>

-----------------------------------------------------------------------------
(* dict and defaultdict *)

EmptyDict == [k \in {} |-> <<>>]

\* d[k] = v
DictSet(d, k, v) == [x \in (DOMAIN d) \cup {k} |-> IF x = k THEN v ELSE d[x]]

\* d.get(k, default)
DictGet(d, k, default) == IF k \in DOMAIN d THEN d[k] ELSE default

\* defaultdict.__getitem__: the value read (the default for a new key)
DefaultRead(d, k, default) == IF k \in DOMAIN d THEN d[k] ELSE default

-----------------------------------------------------------------------------
(* MyPlugin._get_permission_level *)

IsPermission(f) == f.kind = "permission"

RECURSIVE _get_permission_level(_)
_get_permission_level(event_filters) ==
    IF event_filters = <<>> THEN "everyone"
    ELSE IF IsPermission(Head(event_filters))
         THEN (IF Head(event_filters).permission_type = "ADMIN" THEN "admin" ELSE "member")
         ELSE _get_permission_level(Tail(event_filters))

(* MyPlugin._should_include_command *)

\* a variant that ignores the configuration and shows every tier
IncludeEveryTier(cfg, permission_level) == TRUE

\* a variant that ignores the configuration and always hides the admin tier
IncludeNoAdmin(cfg, permission_level) == permission_level # "admin"

_should_include_command(cfg, permission_level) ==
    IF ConfigGet(cfg.show_all_cmds, "False") = "True"
    THEN TRUE
    ELSE permission_level # "admin"

(* MyPlugin._get_plugin_display_name_map *)

IsStr(v) == v # None /\ v # Missing /\ v # NonStr

\* one iteration of the loop over configured_names
AddConfiguredName(mapping, item) ==
    IF ~IsStr(item) THEN mapping
    ELSE LET raw == Strip(item) IN
         IF raw = <<>> \/ ~HasColon(raw) THEN mapping
         ELSE LET plugin_name == Strip(SplitColon(raw)[1])
                  display_name == Strip(SplitColon(raw)[2])
              IN  IF plugin_name # <<>> /\ display_name # <<>>
                  THEN DictSet(mapping, plugin_name, display_name)
                  ELSE mapping

RECURSIVE ConfiguredNamesLoop(_, _)
ConfiguredNamesLoop(mapping, items) ==
    IF items = <<>> THEN mapping
    ELSE ConfiguredNamesLoop(AddConfiguredName(mapping, Head(items)), Tail(items))

_get_plugin_display_name_map(cfg) ==
    IF cfg.plugin_display_names.kind # "list" THEN EmptyDict
    ELSE ConfiguredNamesLoop(EmptyDict, cfg.plugin_display_names.items)

-----------------------------------------------------------------------------
(* MyPlugin.get_all_commands: the expressions of the loop body *)

PluginName(star) == GetAttr(star.name, UnknownPlugin)

\* display_name is a truthy object without strip(): line 104 raises
NativeNameRaises(star) == GetAttr(star.display_name, <<>>) = NonStr

PluginNativeDisplayName(star) == Strip(Or(GetAttr(star.display_name, <<>>), <<>>))

\* a variant in which the configured override beats the native display name
OverrideFirstDisplayName(star, mapping) ==
    Or(Or(DictGet(mapping, PluginName(star), <<>>), PluginNativeDisplayName(star)),
       PluginName(star))

PluginDisplayName(star, mapping) ==
    Or(Or(PluginNativeDisplayName(star), DictGet(mapping, PluginName(star), <<>>)),
       PluginName(star))

\* a variant that forgets the companion plugin
IsExcludedCoreOnly(plugin_name) ==
    plugin_name = astrbot \/ plugin_name = astrbot_plugin_help

IsExcluded(plugin_name) ==
    \/ plugin_name = astrbot
    \/ plugin_name = astrbot_plugin_help
    \/ plugin_name = astrbot_reminder

\* a variant that never reads show_builtin_cmds
BuiltinAlwaysShown(cfg, plugin_name) == FALSE

IsHiddenBuiltin(cfg, plugin_name) ==
    plugin_name = builtin_commands /\ ~(ConfigGet(cfg.show_builtin_cmds, "True") = "True")

IsInvalid(star) ==
    \/ ~Truthy(PluginName(star))
    \/ ~Truthy(GetAttr(star.module_path, None))
    \/ star.star_cls # "Star"

IsCommand(f) == f.kind = "command" \/ f.kind = "command_group"

\* a variant of the loop without its break statements: the last name wins
RECURSIVE LastCommandName(_)
LastCommandName(event_filters) ==
    IF event_filters = <<>> THEN None
    ELSE IF IsCommand(event_filters[Len(event_filters)])
         THEN event_filters[Len(event_filters)].name
         ELSE LastCommandName(SubSeq(event_filters, 1, Len(event_filters) - 1))

\* the loop of lines 152-158: the name of the first CommandFilter or
\* CommandGroupFilter, None when there is neither
RECURSIVE FirstCommandName(_)
FirstCommandName(event_filters) ==
    IF event_filters = <<>> THEN None
    ELSE IF IsCommand(Head(event_filters)) THEN Head(event_filters).name
         ELSE FirstCommandName(Tail(event_filters))

DescText(handler) == Strip(Or(handler.desc, <<>>))

\* (description or "").strip() of a truthy object that is no string raises
DescRaises(handler) == handler.desc = NonStr

DedupeKey(command_name, desc_text, permission_level) ==
    <<command_name, desc_text, permission_level>>

\* a variant that never finds the key
NeverSeenKey(keys, displayname, dedupe_key) == FALSE

SeenKey(keys, displayname, dedupe_key) ==
    dedupe_key \in DefaultRead(keys, displayname, {})

CommandEntry(command_name, desc_text, permission_level) ==
    [command |-> command_name, desc |-> desc_text, permission |-> permission_level]

\* plugin_command_keys[displayname].add(dedupe_key)
AddKey(keys, displayname, dedupe_key) ==
    DictSet(keys, displayname, DefaultRead(keys, displayname, {}) \cup {dedupe_key})

\* a variant that reads the defaultdict, creating the group, and appends nothing
TouchGroup(commands, displayname, entry) ==
    DictSet(commands, displayname, DefaultRead(commands, displayname, <<>>))

\* plugin_commands[displayname].append(entry)
AppendEntry(commands, displayname, entry) ==
    DictSet(commands, displayname, Append(DefaultRead(commands, displayname, <<>>), entry))

\* a variant that tests "help_msg is None", which no returned catalog is
IsNoCatalog(catalog) == FALSE

\* get_help: not help_msg
IsEmptyCatalog(catalog) == DOMAIN catalog = {}

-----------------------------------------------------------------------------
(* get_help, line 31: the call of get_all_commands; lines 82-99 *)

ActivatedRaises == \E k \in 1..Len(stars) : stars[k].activated = "Raises"

Activated == SelectSeq(stars, LAMBDA star : star.activated = "True")

GetAllStars ==
    /\ pc = "start"
    /\ IF fetch_raises \/ ActivatedRaises
       THEN \* except Exception: return {}
            /\ help_msg' = EmptyDict
            /\ pc' = "returned"
            /\ UNCHANGED <<all_stars_metadata, display_name_map, si>>
       ELSE IF Activated = <<>>
       THEN \* if not all_stars_metadata: return {}
            /\ all_stars_metadata' = Activated
            /\ help_msg' = EmptyDict
            /\ pc' = "returned"
            /\ UNCHANGED <<display_name_map, si>>
       ELSE /\ all_stars_metadata' = Activated
            /\ display_name_map' = _get_plugin_display_name_map(config)
            /\ si' = 1
            /\ pc' = "star"
            /\ UNCHANGED help_msg
    /\ UNCHANGED <<host, hi, plugin_commands, plugin_command_keys, origin, replies, drawn>>

(* lines 102-139: one iteration of the loop over the activated stars, up to
   the start of its scan of the registry *)
VisitStar ==
    /\ pc = "star"
    /\ si <= Len(all_stars_metadata)
    /\ LET star == all_stars_metadata[si] IN
       IF NativeNameRaises(star)
       THEN pc' = "build_raised" /\ UNCHANGED <<si, hi>>
       ELSE IF \/ IsExcluded(PluginName(star))
               \/ IsHiddenBuiltin(config, PluginName(star))
               \/ IsInvalid(star)
               \/ star_handlers_registry = <<>>
       THEN pc' = "star" /\ si' = si + 1 /\ UNCHANGED hi
       ELSE pc' = "handler" /\ hi' = 1 /\ UNCHANGED si
    /\ UNCHANGED <<host, all_stars_metadata, display_name_map, plugin_commands,
                   plugin_command_keys, origin, help_msg, replies, drawn>>

\* the end of one iteration of the loop over the registry
NextHandler ==
    IF hi = Len(star_handlers_registry)
    THEN pc' = "star" /\ si' = si + 1 /\ UNCHANGED hi
    ELSE pc' = "handler" /\ hi' = hi + 1 /\ UNCHANGED si

(* lines 142-177: one iteration of the loop over the handler registry *)
ScanHandler ==
    /\ pc = "handler"
    /\ LET star == all_stars_metadata[si]
           plugin_displayname == PluginDisplayName(star, display_name_map)
           handler == star_handlers_registry[hi]
           command_name == FirstCommandName(handler.event_filters)
           permission_level == _get_permission_level(handler.event_filters)
           dedupe_key == DedupeKey(command_name, DescText(handler), permission_level)
       IN
       IF \/ ~handler.is_metadata
          \/ handler.handler_module_path # GetAttr(star.module_path, None)
          \/ ~Truthy(command_name)
          \/ ~_should_include_command(config, permission_level)
       THEN NextHandler /\ UNCHANGED <<plugin_commands, plugin_command_keys, origin>>
       ELSE IF DescRaises(handler)
       THEN /\ pc' = "build_raised"
            /\ UNCHANGED <<si, hi, plugin_commands, plugin_command_keys, origin>>
       ELSE IF SeenKey(plugin_command_keys, plugin_displayname, dedupe_key)
       THEN NextHandler /\ UNCHANGED <<plugin_commands, plugin_command_keys, origin>>
       ELSE /\ plugin_command_keys' =
                AddKey(plugin_command_keys, plugin_displayname, dedupe_key)
            /\ plugin_commands' =
                AppendEntry(plugin_commands, plugin_displayname,
                            CommandEntry(command_name, DescText(handler), permission_level))
            /\ origin' = AppendEntry(origin, plugin_displayname, <<si, hi>>)
            /\ NextHandler
    /\ UNCHANGED <<host, all_stars_metadata, display_name_map, help_msg, replies, drawn>>

(* line 178 *)
ReturnCatalog ==
    /\ pc = "star"
    /\ si > Len(all_stars_metadata)
    /\ help_msg' = plugin_commands
    /\ pc' = "returned"
    /\ UNCHANGED <<host, all_stars_metadata, display_name_map, si, hi, plugin_commands,
                   plugin_command_keys, origin, replies, drawn>>

(* get_help, lines 32-34 *)
ReplyPlain ==
    /\ pc = "returned"
    /\ IsEmptyCatalog(help_msg)
    /\ replies' = Append(replies, "plain")
    /\ pc' = "done"
    /\ UNCHANGED <<host, all_stars_metadata, display_name_map, si, hi, plugin_commands,
                   plugin_command_keys, origin, help_msg, drawn>>

(* get_help, lines 35-36 *)
ReplyImage ==
    /\ pc = "returned"
    /\ ~IsEmptyCatalog(help_msg)
    /\ drawn' = drawn + 1
    /\ IF render_raises
       THEN pc' = "render_raised" /\ UNCHANGED replies
       ELSE pc' = "done" /\ replies' = Append(replies, "image")
    /\ UNCHANGED <<host, all_stars_metadata, display_name_map, si, hi, plugin_commands,
                   plugin_command_keys, origin, help_msg>>

Next ==
    \/ GetAllStars
    \/ VisitStar
    \/ ScanHandler
    \/ ReturnCatalog
    \/ ReplyPlain
    \/ ReplyImage

-----------------------------------------------------------------------------
(* Host states and configurations the runs start from *)

MaxStars == 2
MaxHandlers == 2
MaxNames == 2

SeqsUpTo(S, n) == UNION {[1..k -> S] : k \in 0..n}

foo == <<"f","o","o">>
bar == <<"b","a","r">>
FooTools == <<"F","o","o"," ","T","o","o","l","s">>
mod_a == <<"m",".","a">>
mod_b == <<"m",".","b">>
cmd_a == <<"a">>
cmd_b == <<"b">>
desc_d == <<"d">>

StarMetadata(name, display_name, module_path) ==
    [name |-> name, display_name |-> display_name, module_path |-> module_path,
     activated |-> "True", star_cls |-> "Star"]

CommandFilter(command_name) ==
    [kind |-> "command", name |-> command_name, permission_type |-> "-"]

CommandGroupFilter(group_name) ==
    [kind |-> "command_group", name |-> group_name, permission_type |-> "-"]

PermissionTypeFilter(permission_type) ==
    [kind |-> "permission", name |-> <<>>, permission_type |-> permission_type]

OtherFilter == [kind |-> "other", name |-> <<>>, permission_type |-> "-"]

StarHandlerMetadata(module_path, desc, event_filters) ==
    [is_metadata |-> TRUE, handler_module_path |-> module_path, desc |-> desc,
     event_filters |-> event_filters]

Config(show_all_cmds, show_builtin_cmds, plugin_display_names) ==
    [show_all_cmds |-> show_all_cmds, show_builtin_cmds |-> show_builtin_cmds,
     plugin_display_names |-> plugin_display_names]

NamesUnset == [kind |-> "unset", items |-> <<>>]
NamesList(items) == [kind |-> "list", items |-> items]

\* The host keeps one descriptor per internal name and per module path.
DistinctStars(l) ==
    \A a, b \in 1..Len(l) :
        a # b =>
            /\ Truthy(PluginName(l[a])) => PluginName(l[a]) # PluginName(l[b])
            /\ Truthy(GetAttr(l[a].module_path, None)) => l[a].module_path # l[b].module_path

StarLists(pool) == {l \in SeqsUpTo(pool, MaxStars) : DistinctStars(l)}

InitFrom(configs, starpool, handlerpool, fetchfaults, renderfaults) ==
    /\ config \in configs
    /\ fetch_raises \in fetchfaults
    /\ render_raises \in renderfaults
    /\ stars \in StarLists(starpool)
    /\ star_handlers_registry \in SeqsUpTo(handlerpool, MaxHandlers)
    /\ pc = "start"
    /\ all_stars_metadata = <<>>
    /\ display_name_map = EmptyDict
    /\ si = 0
    /\ hi = 0
    /\ plugin_commands = EmptyDict
    /\ plugin_command_keys = EmptyDict
    /\ origin = EmptyDict
    /\ help_msg = EmptyDict
    /\ replies = <<>>
    /\ drawn = 0

(* Permissions and command names: one ordinary plugin, one excluded one, and
   handlers whose filter sequences differ *)
VisConfigs == {Config(a, "Unset", NamesUnset) : a \in {"True", "False", "Unset"}}

VisStars ==
    {StarMetadata(foo, None, mod_a), StarMetadata(bar, None, mod_b),
     StarMetadata(astrbot, None, mod_b),
     [StarMetadata(bar, None, mod_a) EXCEPT !.activated = "False"],
     [StarMetadata(bar, None, mod_a) EXCEPT !.star_cls = "None"]}

VisHandlers ==
    {StarHandlerMetadata(mod_a, desc_d, <<CommandFilter(cmd_a)>>),
     StarHandlerMetadata(mod_a, desc_d, <<PermissionTypeFilter("ADMIN"), CommandFilter(cmd_a)>>),
     StarHandlerMetadata(mod_a, None,
        <<CommandFilter(cmd_b), PermissionTypeFilter("MEMBER"), PermissionTypeFilter("ADMIN")>>),
     StarHandlerMetadata(mod_a, None,
        <<OtherFilter, CommandGroupFilter(cmd_b), PermissionTypeFilter("ADMIN"),
          CommandFilter(cmd_a)>>),
     StarHandlerMetadata(mod_a, desc_d, <<CommandFilter(cmd_a), CommandGroupFilter(cmd_b)>>),
     StarHandlerMetadata(mod_a, desc_d, <<OtherFilter, PermissionTypeFilter("ADMIN")>>),
     StarHandlerMetadata(mod_a, desc_d, <<CommandFilter(<<>>), CommandFilter(cmd_a)>>),
     StarHandlerMetadata(mod_b, desc_d, <<PermissionTypeFilter("ADMIN"), CommandFilter(cmd_b)>>),
     [StarHandlerMetadata(mod_a, desc_d, <<CommandFilter(cmd_a)>>) EXCEPT !.is_metadata = FALSE]}

Init == InitFrom(VisConfigs, VisStars, VisHandlers, {FALSE}, {FALSE})

Spec == Init /\ [][Next]_vars

(* Exclusion, the builtin plugin and validity: plugins of every internal name
   the code distinguishes, valid and invalid, with and without a display name *)
StarsConfigs ==
    {Config(a, b, NamesUnset) : a \in {"True", "False"}, b \in {"True", "False", "Unset"}}

StarsStars ==
    {StarMetadata(n, None, mod_a) :
        n \in {astrbot, astrbot_plugin_help, astrbot_reminder, builtin_commands}}
    \cup {StarMetadata(n, FooTools, mod_a) : n \in {astrbot_reminder, builtin_commands}}
    \cup {StarMetadata(foo, None, mod_b), StarMetadata(foo, FooTools, mod_b),
          StarMetadata(foo, None, None), StarMetadata(None, FooTools, mod_b),
          StarMetadata(<<>>, None, mod_b),
          [StarMetadata(foo, None, mod_b) EXCEPT !.star_cls = "None"],
          [StarMetadata(foo, None, mod_b) EXCEPT !.activated = "False"]}

StarsHandlers ==
    {StarHandlerMetadata(m, desc_d, f) :
        m \in {mod_a, mod_b},
        f \in {<<CommandFilter(cmd_a)>>,
               <<PermissionTypeFilter("ADMIN"), CommandFilter(cmd_b)>>}}
    \cup {StarHandlerMetadata(mod_b, desc_d, <<OtherFilter>>)}

InitStars == InitFrom(StarsConfigs, StarsStars, StarsHandlers, {FALSE}, {FALSE})

SpecStars == InitStars /\ [][Next]_vars

(* Display names: native names, overrides from plugin_display_names, and
   internal names, for two plugins that can end up under one key *)
foo_FooTools == foo \o <<":">> \o FooTools

NamesItems ==
    {foo_FooTools,
     <<" ">> \o foo \o <<" ", ":", " ">> \o bar \o <<" ">>,
     foo \o <<":", " ">>,
     foo,
     NonStr,
     bar \o <<":">> \o cmd_a \o <<":">> \o cmd_b}

NamesConfigs ==
    {Config("False", "Unset", n) :
        n \in {NamesUnset, [kind |-> "none", items |-> <<>>],
               [kind |-> "nonlist", items |-> <<>>]}
              \cup {NamesList(l) : l \in SeqsUpTo(NamesItems, MaxNames)}}

NamesStars ==
    {StarMetadata(foo, d, mod_a) :
        d \in {None, Missing, <<>>, <<" ">>, <<" ">> \o bar \o <<" ">>}}
    \cup {StarMetadata(bar, None, mod_b), StarMetadata(bar, FooTools, mod_b),
          StarMetadata(Missing, None, mod_b)}

NamesHandlers ==
    {StarHandlerMetadata(mod_a, desc_d, <<CommandFilter(cmd_a)>>),
     StarHandlerMetadata(mod_b, desc_d, <<CommandFilter(cmd_b)>>)}

InitNames == InitFrom(NamesConfigs, NamesStars, NamesHandlers, {FALSE}, {FALSE})

SpecNames == InitNames /\ [][Next]_vars

(* Duplicates: handlers that agree or differ in command, description and
   permission, owned by one plugin or by two plugins of one display name *)
DedupConfigs == {Config(a, "Unset", NamesUnset) : a \in {"True", "False"}}

DedupStars ==
    {StarMetadata(foo, None, mod_a), StarMetadata(bar, foo, mod_b),
     StarMetadata(bar, None, mod_b)}

DedupHandlers ==
    {StarHandlerMetadata(mod_a, d, <<CommandFilter(cmd_a)>>) :
        d \in {desc_d, <<" ">> \o desc_d \o <<" ">>, None, <<" ">>}}
    \cup {StarHandlerMetadata(mod_a, desc_d, <<PermissionTypeFilter("MEMBER"), CommandFilter(cmd_a)>>),
          StarHandlerMetadata(mod_a, desc_d, <<PermissionTypeFilter("ADMIN"), CommandFilter(cmd_a)>>),
          StarHandlerMetadata(mod_a, desc_d, <<CommandFilter(cmd_b)>>),
          StarHandlerMetadata(mod_b, desc_d, <<CommandFilter(cmd_a)>>),
          StarHandlerMetadata(mod_b, desc_d \o <<" ">>, <<CommandGroupFilter(cmd_a)>>)}

InitDedup == InitFrom(DedupConfigs, DedupStars, DedupHandlers, {FALSE}, {FALSE})

SpecDedup == InitDedup /\ [][Next]_vars

(* Failures of the collaborators: the fetch, a descriptor that cannot be read,
   a display name or a description that is no string, and the renderer *)
FaultConfigs == {Config(a, "Unset", NamesUnset) : a \in {"True", "False"}}

FaultStars ==
    {StarMetadata(foo, None, mod_a), StarMetadata(foo, NonStr, mod_a),
     StarMetadata(astrbot, NonStr, mod_b), StarMetadata(bar, None, mod_b),
     [StarMetadata(bar, None, mod_b) EXCEPT !.activated = "Raises"],
     [StarMetadata(foo, None, mod_a) EXCEPT !.activated = "False"]}

FaultHandlers ==
    {StarHandlerMetadata(mod_a, desc_d, <<CommandFilter(cmd_a)>>),
     StarHandlerMetadata(mod_a, NonStr, <<CommandFilter(cmd_a)>>),
     StarHandlerMetadata(mod_a, NonStr, <<PermissionTypeFilter("ADMIN"), CommandFilter(cmd_b)>>),
     StarHandlerMetadata(mod_b, desc_d, <<CommandFilter(cmd_a)>>)}

InitFaults == InitFrom(FaultConfigs, FaultStars, FaultHandlers, BOOLEAN, BOOLEAN)

SpecFaults == InitFaults /\ [][Next]_vars

-----------------------------------------------------------------------------
(* Properties.  The definitions below restate, without the operators of the
   loop body, what a handler and a star are to the claims. *)

Returned == pc \in {"returned", "done", "render_raised"}

OriginStar(d, k) == all_stars_metadata[origin[d][k][1]]
OriginHandler(d, k) == star_handlers_registry[origin[d][k][2]]

\* the first PermissionTypeFilter of the sequence has tier ADMIN
FirstPermissionIsAdmin(f) ==
    \E k \in 1..Len(f) :
        /\ f[k].kind = "permission" /\ f[k].permission_type = "ADMIN"
        /\ \A m \in 1..(k - 1) : f[m].kind # "permission"

HasCommandFilter(f) == \E k \in 1..Len(f) : f[k].kind \in {"command", "command_group"}

FirstCommandIndex(f) ==
    CHOOSE k \in 1..Len(f) :
        /\ f[k].kind \in {"command", "command_group"}
        /\ \A m \in 1..(k - 1) : f[m].kind \notin {"command", "command_group"}

\* the handler exposes a command: its first command or group filter has a name
NamesCommand(handler) ==
    /\ HasCommandFilter(handler.event_filters)
    /\ handler.event_filters[FirstCommandIndex(handler.event_filters)].name \notin {None, <<>>}

CommandOf(handler) == handler.event_filters[FirstCommandIndex(handler.event_filters)].name

\* activated, not excluded, not the hidden builtin plugin, and valid
Eligible(star) ==
    /\ star.activated = "True"
    /\ star.name \notin {astrbot, astrbot_plugin_help, astrbot_reminder, None, <<>>}
    /\ ~(star.name = builtin_commands /\ config.show_builtin_cmds = "False")
    /\ star.module_path \notin {None, Missing, <<>>}
    /\ star.star_cls = "Star"

Owns(star, handler) ==
    handler.is_metadata /\ handler.handler_module_path = star.module_path

\* the history variable runs parallel to the catalog under construction
OriginParallel ==
    /\ DOMAIN origin = DOMAIN plugin_commands
    /\ \A d \in DOMAIN origin : Len(origin[d]) = Len(plugin_commands[d])

\* C1: with show_all_cmds false or unset, no entry of any group of the catalog
\* (under construction or returned) has permission "admin", and no entry comes
\* from a handler whose first PermissionTypeFilter has tier ADMIN.
C1_NoAdminByDefault ==
    config.show_all_cmds \in {"False", "Unset"} =>
        /\ \A d \in DOMAIN help_msg : \A k \in 1..Len(help_msg[d]) :
               help_msg[d][k].permission # "admin"
        /\ \A d \in DOMAIN plugin_commands : \A k \in 1..Len(plugin_commands[d]) :
               /\ plugin_commands[d][k].permission # "admin"
               /\ ~FirstPermissionIsAdmin(OriginHandler(d, k).event_filters)

\* an admin command of an eligible plugin was scanned and a catalog came back
C1_Witness ==
    /\ pc = "returned"
    /\ config.show_all_cmds \in {"False", "Unset"}
    /\ ~IsEmptyCatalog(help_msg)
    /\ \E s \in 1..Len(all_stars_metadata), h \in 1..Len(star_handlers_registry) :
           /\ Eligible(all_stars_metadata[s])
           /\ Owns(all_stars_metadata[s], star_handlers_registry[h])
           /\ NamesCommand(star_handlers_registry[h])
           /\ FirstPermissionIsAdmin(star_handlers_registry[h].event_filters)

\* C2 as stated: with show_all_cmds true, every handler of the registry that names
\* a command and whose first PermissionTypeFilter is ADMIN has an entry in the
\* returned catalog.
C2_EveryAdminHandlerListed ==
    (pc = "returned" /\ config.show_all_cmds = "True") =>
        \A h \in 1..Len(star_handlers_registry) :
            LET handler == star_handlers_registry[h] IN
            (handler.is_metadata /\ NamesCommand(handler)
                /\ FirstPermissionIsAdmin(handler.event_filters))
            => \E d \in DOMAIN help_msg : \E k \in 1..Len(help_msg[d]) :
                   /\ help_msg[d][k].command = CommandOf(handler)
                   /\ help_msg[d][k].permission = "admin"

\* C2 amended: with show_all_cmds true, once the loop over the fetched plugins has
\* returned, every such handler whose module path is that of an eligible plugin
\* (activated, not excluded, not the hidden builtin plugin, valid) has its entry
\* (command, trimmed description, "admin") in that plugin's display-name group.
C2_AdminOfEligibleListed ==
    (Returned /\ config.show_all_cmds = "True") =>
        \A s \in 1..Len(all_stars_metadata), h \in 1..Len(star_handlers_registry) :
            LET star == all_stars_metadata[s]
                handler == star_handlers_registry[h]
                d == PluginDisplayName(star, display_name_map)
            IN
            (Eligible(star) /\ Owns(star, handler) /\ NamesCommand(handler)
                /\ FirstPermissionIsAdmin(handler.event_filters))
            => /\ d \in DOMAIN help_msg
               /\ \E k \in 1..Len(help_msg[d]) :
                      help_msg[d][k] = [command |-> CommandOf(handler),
                                        desc |-> DescText(handler),
                                        permission |-> "admin"]

\* an admin command of an eligible plugin is in the returned catalog
C2_Witness ==
    /\ pc = "returned"
    /\ config.show_all_cmds = "True"
    /\ \E s \in 1..Len(all_stars_metadata), h \in 1..Len(star_handlers_registry) :
           /\ Eligible(all_stars_metadata[s])
           /\ Owns(all_stars_metadata[s], star_handlers_registry[h])
           /\ NamesCommand(star_handlers_registry[h])
           /\ FirstPermissionIsAdmin(star_handlers_registry[h].event_filters)
    /\ \E d \in DOMAIN help_msg : \E k \in 1..Len(help_msg[d]) :
           help_msg[d][k].permission = "admin"

\* C10: the command of every entry is the name of the first CommandFilter or
\* CommandGroupFilter of the handler that contributed it, whatever follows; a
\* handler without such a filter contributes no entry.
C10_CommandIsFirstFilterName ==
    /\ OriginParallel
    /\ \A d \in DOMAIN plugin_commands : \A k \in 1..Len(plugin_commands[d]) :
           /\ HasCommandFilter(OriginHandler(d, k).event_filters)
           /\ plugin_commands[d][k].command = CommandOf(OriginHandler(d, k))
    /\ Returned => help_msg = plugin_commands

\* an entry came from a handler with two command filters of different names
C10_Witness ==
    /\ pc = "returned"
    /\ \E d \in DOMAIN help_msg : \E k \in 1..Len(help_msg[d]) :
           LET f == OriginHandler(d, k).event_filters IN
           \E a, b \in 1..Len(f) :
               /\ a < b
               /\ f[a].kind \in {"command", "command_group"}
               /\ f[b].kind \in {"command", "command_group"}
               /\ f[a].name # f[b].name

ExcludedNames == {astrbot, astrbot_plugin_help, astrbot_reminder}

\* C3: no entry of the catalog is appended while an excluded plugin is visited,
\* and none comes from a handler whose module path is that of a plugin named
\* astrbot, astrbot_plugin_help or astrbot-reminder, whatever its handlers, its
\* display name and the two flags are.
C3_ExcludedNeverListed ==
    /\ OriginParallel
    /\ \A d \in DOMAIN plugin_commands : \A k \in 1..Len(plugin_commands[d]) :
           /\ OriginStar(d, k).name \notin ExcludedNames
           /\ \A s \in 1..Len(stars) :
                  stars[s].name \in ExcludedNames => ~Owns(stars[s], OriginHandler(d, k))
    /\ Returned => help_msg = plugin_commands

\* a catalog came back although an activated, valid, excluded plugin owns a
\* handler that names a visible command
C3_Witness ==
    /\ pc = "returned"
    /\ ~IsEmptyCatalog(help_msg)
    /\ \E s \in 1..Len(all_stars_metadata), h \in 1..Len(star_handlers_registry) :
           /\ all_stars_metadata[s].name \in ExcludedNames
           /\ all_stars_metadata[s].star_cls = "Star"
           /\ Owns(all_stars_metadata[s], star_handlers_registry[h])
           /\ NamesCommand(star_handlers_registry[h])
           /\ ~FirstPermissionIsAdmin(star_handlers_registry[h].event_filters)

\* C7 as stated: with show_builtin_cmds false, the returned catalog has no key
\* equal to the display name of the builtin_commands plugin and no entry from
\* its handlers.
C7_BuiltinGroupAbsent ==
    (Returned /\ config.show_builtin_cmds = "False") =>
        \A s \in 1..Len(all_stars_metadata) :
            all_stars_metadata[s].name = builtin_commands =>
                /\ PluginDisplayName(all_stars_metadata[s], display_name_map)
                       \notin DOMAIN help_msg
                /\ \A d \in DOMAIN help_msg : \A k \in 1..Len(help_msg[d]) :
                       ~Owns(all_stars_metadata[s], OriginHandler(d, k))

\* C7 amended: with show_builtin_cmds false, no entry of the catalog comes from
\* the builtin_commands plugin or its handlers; a group under its display name
\* exists only with entries appended for other plugins of that display name.
C7_BuiltinContributesNothing ==
    config.show_builtin_cmds = "False" =>
        /\ OriginParallel
        /\ \A d \in DOMAIN plugin_commands : \A k \in 1..Len(plugin_commands[d]) :
               /\ OriginStar(d, k).name # builtin_commands
               /\ PluginDisplayName(OriginStar(d, k), display_name_map) = d
               /\ \A s \in 1..Len(stars) :
                      stars[s].name = builtin_commands
                          => ~Owns(stars[s], OriginHandler(d, k))
        /\ Returned => help_msg = plugin_commands

\* a catalog came back although the activated, valid builtin_commands plugin
\* owns a handler that names a visible command
C7_Witness ==
    /\ pc = "returned"
    /\ config.show_builtin_cmds = "False"
    /\ ~IsEmptyCatalog(help_msg)
    /\ \E s \in 1..Len(all_stars_metadata), h \in 1..Len(star_handlers_registry) :
           /\ all_stars_metadata[s].name = builtin_commands
           /\ all_stars_metadata[s].star_cls = "Star"
           /\ Owns(all_stars_metadata[s], star_handlers_registry[h])
           /\ NamesCommand(star_handlers_registry[h])
           /\ ~FirstPermissionIsAdmin(star_handlers_registry[h].event_filters)

\* C9: every key of the catalog, under construction and returned, maps to a
\* non-empty sequence of entries.
C9_NoEmptyGroup ==
    /\ \A d \in DOMAIN plugin_commands : Len(plugin_commands[d]) > 0
    /\ \A d \in DOMAIN help_msg : Len(help_msg[d]) > 0

\* a non-empty catalog came back without a group for an eligible plugin whose
\* only commands are hidden by the admin policy
C9_Witness ==
    /\ pc = "returned"
    /\ ~IsEmptyCatalog(help_msg)
    /\ config.show_all_cmds = "False"
    /\ \E s \in 1..Len(all_stars_metadata), h \in 1..Len(star_handlers_registry) :
           /\ Eligible(all_stars_metadata[s])
           /\ Owns(all_stars_metadata[s], star_handlers_registry[h])
           /\ NamesCommand(star_handlers_registry[h])
           /\ FirstPermissionIsAdmin(star_handlers_registry[h].event_filters)
           /\ PluginDisplayName(all_stars_metadata[s], display_name_map)
                  \notin DOMAIN help_msg

\* s without its leading and trailing blanks, as the part between its first
\* and its last character that is no blank
Trimmed(s) ==
    LET solid == {k \in 1..Len(s) : s[k] # " "} IN
    IF solid = {} THEN <<>>
    ELSE SubSeq(s, CHOOSE k \in solid : \A m \in solid : k <= m,
                   CHOOSE k \in solid : \A m \in solid : k >= m)

\* a configured item "name:alias" with a name and an alias
ColonAt(item) == CHOOSE k \in 1..Len(item) : item[k] = ":" /\ \A m \in 1..(k - 1) : item[m] # ":"
ItemName(item) == Trimmed(SubSeq(item, 1, ColonAt(item) - 1))
ItemAlias(item) == Trimmed(SubSeq(item, ColonAt(item) + 1, Len(item)))
WellFormedItem(item) ==
    /\ item \notin {None, Missing, NonStr}
    /\ \E k \in 1..Len(item) : item[k] = ":"
    /\ ItemName(item) # <<>>
    /\ ItemAlias(item) # <<>>

\* the alias plugin_display_names gives a name: that of the last item for it
ConfiguredAlias(name) ==
    LET items == config.plugin_display_names.items
        hits == {k \in 1..Len(items) : WellFormedItem(items[k]) /\ ItemName(items[k]) = name}
    IN  IF config.plugin_display_names.kind # "list" \/ hits = {} THEN <<>>
        ELSE ItemAlias(items[CHOOSE k \in hits : \A m \in hits : k >= m])

InternalName(star) == IF star.name = Missing THEN UnknownPlugin ELSE star.name

NoNativeName(star) ==
    star.display_name \in {None, Missing} \/ Trimmed(star.display_name) = <<>>

\* the first non-empty of: trimmed native display name, override, internal name
ExpectedGroup(star) ==
    IF ~NoNativeName(star) THEN Trimmed(star.display_name)
    ELSE IF ConfiguredAlias(InternalName(star)) # <<>>
         THEN ConfiguredAlias(InternalName(star))
         ELSE InternalName(star)

\* C8: every entry is filed under the first non-empty of its plugin's trimmed
\* native display name, the plugin_display_names override for its internal name,
\* and its internal name; with ["foo:Foo Tools"], plugin foo without a native
\* display name is filed under "Foo Tools"; a native display name beats an override.
C8_GroupKey ==
    /\ OriginParallel
    /\ \A d \in DOMAIN plugin_commands : \A k \in 1..Len(plugin_commands[d]) :
           LET star == OriginStar(d, k) IN
           /\ d = ExpectedGroup(star)
           /\ (config.plugin_display_names = NamesList(<<foo_FooTools>>)
                  /\ star.name = foo /\ NoNativeName(star)) => d = FooTools
           /\ ~NoNativeName(star) => d = Trimmed(star.display_name)
    /\ Returned => help_msg = plugin_commands

\* with ["foo:Foo Tools"], plugin foo without a native display name has
\* contributed to the returned catalog
C8_Witness ==
    /\ pc = "returned"
    /\ config.plugin_display_names = NamesList(<<foo_FooTools>>)
    /\ \E d \in DOMAIN help_msg : \E k \in 1..Len(help_msg[d]) :
           OriginStar(d, k).name = foo /\ NoNativeName(OriginStar(d, k))

\* the tier of a filter sequence: that of its first PermissionTypeFilter
ExpectedPermission(f) ==
    IF FirstPermissionIsAdmin(f) THEN "admin"
    ELSE IF \E k \in 1..Len(f) : f[k].kind = "permission" THEN "member"
    ELSE "everyone"

ExpectedEntry(handler) ==
    [command |-> CommandOf(handler),
     desc |-> IF handler.desc = None THEN <<>> ELSE Trimmed(handler.desc),
     permission |-> ExpectedPermission(handler.event_filters)]

\* star s and handler h make an entry, duplicate or not
Contributes(s, h) ==
    /\ Eligible(all_stars_metadata[s])
    /\ Owns(all_stars_metadata[s], star_handlers_registry[h])
    /\ NamesCommand(star_handlers_registry[h])
    /\ \/ config.show_all_cmds = "True"
       \/ ~FirstPermissionIsAdmin(star_handlers_registry[h].event_filters)

\* the order in which the two loops reach the pairs <<star, handler>>
Before(a, b) == a[1] < b[1] \/ (a[1] = b[1] /\ a[2] < b[2])

\* C6: no group holds two entries with the same (command, trimmed description,
\* permission); every triple some handler produces for a group is in the group,
\* appended by the first star and handler that produce it, and the entries of a
\* group are in the order of those first occurrences.
C6_Dedup ==
    /\ OriginParallel
    /\ \A d \in DOMAIN plugin_commands :
           /\ \A i, j \in 1..Len(plugin_commands[d]) :
                  /\ i # j => plugin_commands[d][i] # plugin_commands[d][j]
                  /\ i < j => Before(origin[d][i], origin[d][j])
           /\ \A k \in 1..Len(plugin_commands[d]) :
                  /\ plugin_commands[d][k] = ExpectedEntry(OriginHandler(d, k))
                  /\ \A s \in 1..Len(all_stars_metadata),
                        h \in 1..Len(star_handlers_registry) :
                         (/\ Contributes(s, h)
                          /\ PluginDisplayName(all_stars_metadata[s], display_name_map) = d
                          /\ ExpectedEntry(star_handlers_registry[h]) = plugin_commands[d][k])
                         => ~Before(<<s, h>>, origin[d][k])
    /\ Returned =>
           /\ help_msg = plugin_commands
           /\ \A s \in 1..Len(all_stars_metadata), h \in 1..Len(star_handlers_registry) :
                  Contributes(s, h) =>
                      LET d == PluginDisplayName(all_stars_metadata[s], display_name_map) IN
                      /\ d \in DOMAIN help_msg
                      /\ Cardinality({k \in 1..Len(help_msg[d]) :
                             help_msg[d][k] = ExpectedEntry(star_handlers_registry[h])}) = 1

\* the returned catalog has an entry that two handlers produced, the later one
\* for another plugin of the same display name
C6_Witness ==
    /\ pc = "returned"
    /\ \E s, t \in 1..Len(all_stars_metadata), h, g \in 1..Len(star_handlers_registry) :
           /\ s < t
           /\ Contributes(s, h)
           /\ Contributes(t, g)
           /\ PluginDisplayName(all_stars_metadata[s], display_name_map)
                  = PluginDisplayName(all_stars_metadata[t], display_name_map)
           /\ ExpectedEntry(star_handlers_registry[h]) = ExpectedEntry(star_handlers_registry[g])
           /\ star_handlers_registry[h].desc # star_handlers_registry[g].desc

\* C4: get_all_commands lets no exception escape: whatever fails while the
\* plugins are fetched and the plugins and handlers are scanned, it returns.
C4_NeverRaises == pc # "build_raised"

\* C5: after get_all_commands returned an empty mapping, get_help yields the
\* plain-text reply and nothing else, and stops without calling the renderer;
\* an image reply is yielded only for a non-empty catalog that was rendered.
C5_PlainReplyWhenEmpty ==
    /\ (pc = "returned" /\ DOMAIN help_msg = {}) => (replies = <<>> /\ drawn = 0)
    /\ (pc \in {"done", "render_raised"} /\ DOMAIN help_msg = {})
           => (pc = "done" /\ replies = <<"plain">> /\ drawn = 0)
    /\ pc = "done" => ~ENABLED Next
    /\ (drawn > 0 \/ \E k \in 1..Len(replies) : replies[k] = "image")
           => (DOMAIN help_msg # {} /\ drawn = 1 /\ Returned)
    /\ (\E k \in 1..Len(replies) : replies[k] = "image") => replies = <<"image">>

\* get_help has replied in plain text because no plugin is activated
C5_Witness ==
    /\ pc = "done"
    /\ replies = <<"plain">>
    /\ ~fetch_raises
    /\ stars # <<>>
    /\ all_stars_metadata = <<>>

====
